---------------------------- MODULE Spec2Model ----------------------------
(***************************************************************************)
(* The HyperPay checkout backend of src/server.js: the three HTTP          *)
(* handlers (create-checkout, payment-status, verify-payment), the gateway *)
(* they call and the Firestore collections orders/{id} and                 *)
(* carts/{userId}/items/{docId} that payment-status writes.                *)
(*                                                                         *)
(* Every handler is an async function: it runs atomically up to its next   *)
(* await, and the awaited gateway or store operation takes effect in one   *)
(* atomic step when it completes.  A request slot r holds one invocation  *)
(* of a handler; pc[r] names the await it is suspended at.                 *)
(***************************************************************************)
EXTENDS Naturals, FiniteSets, Sequences, TLC

\* ------------------------------------------------------------- bounds

\* How many requests arrive in a run.
MaxRequests == 2

\* The request slots: a slot holds one handler invocation from its arrival
\* to its response, so two invocations overlap in time at most.
Requests == {1, 2}

\* ------------------------------------------------------------- inputs

\* An absent query/body field (undefined or ""): falsy in the !x tests.
Missing == ""

Paths == {"/v1/checkouts/A/payment", "/v1/checkouts/B/payment"}

Users == {"u1", "u2"}

Suppliers == {"s1", "s2"}

Names == {"Ali"}

Amounts == {"100", "abc"}

\* The cart documents the storefront can put under carts/{userId}/items:
\* a document is addressed by (userId, docId) and carries its supplierId.
Docs ==
  { [userId |-> "u1", docId |-> "a", supplierId |-> "s1"],
    [userId |-> "u1", docId |-> "b", supplierId |-> "s1"],
    [userId |-> "u1", docId |-> "c", supplierId |-> "s2"],
    [userId |-> "u2", docId |-> "a", supplierId |-> "s1"] }

\* The documents the storefront adds while requests are being handled.
Added ==
  { [userId |-> "u1", docId |-> "a", supplierId |-> "s1"],
    [userId |-> "u1", docId |-> "c", supplierId |-> "s2"] }

\* ------------------------------------------------------------- gateway

SuccessCodesWithDeclined ==
  {"000.000.000", "000.100.110", "000.100.112", "100.396.101"}

\* const successCodes = [...]
SuccessCodes == {"000.000.000", "000.100.110", "000.100.112"}

\* Result codes the gateway answers with: the approved ones, a declined
\* one, a pending one and a string that extends an approved one.
Codes ==
  {"000.000.000", "000.100.110", "000.100.112", "100.396.101", "000.200.000",
   "000.000.0000"}

\* The codes the specification counts as approved (its section 4.3).
ApprovedCodes == {"000.000.000", "000.100.110", "000.100.112"}

\* data.id of the gateway's answer for a resourcePath: the payment the
\* checkout of that path belongs to.
PaymentId(resourcePath) ==
  IF resourcePath = "/v1/checkouts/A/payment" THEN "pay_A" ELSE "pay_B"

Payments == {PaymentId(p) : p \in Paths}

\* data.result.description of the gateway's answer with the given code.
Description(code) ==
  CASE code \in {"000.000.000", "000.100.110", "000.100.112"} ->
         "Request successfully processed"
    [] code = "100.396.101" -> "Cancelled by user"
    [] code = "000.200.000" -> "transaction pending"
    [] OTHER -> "invalid code"

\* encodeURIComponent(s): digits, letters and dots stay, a space becomes
\* %20.
EncodeURIComponent(s) ==
  CASE s = "Request successfully processed" ->
         "Request%20successfully%20processed"
    [] s = "Cancelled by user" -> "Cancelled%20by%20user"
    [] s = "transaction pending" -> "transaction%20pending"
    [] s = "invalid code" -> "invalid%20code"
    [] OTHER -> s

IsSuccessAnyCode(code) == TRUE

\* A classification by the "000." prefix of the code.
IsSuccessByPrefix(code) ==
  code \in {"000.000.000", "000.100.110", "000.100.112", "000.200.000",
            "000.000.0000"}

\* The store-less variant: const successCodes = [...]
SuccessCodesLive == {"000.000.000", "000.100.110", "000.100.112"}

\* The store-less variant: successCodes.includes(resultCode)
IsSuccessLive(resultCode) == resultCode \in SuccessCodesLive

\* successCodes.includes(code)
IsSuccess(code) == code \in SuccessCodes

\* ------------------------------------------------------------- store

CartQueryWholeCart(c, userId, supplierId) ==
  {d \in c : d.userId = userId}

\* A query over the items of every buyer.
CartQueryAllBuyers(c, userId, supplierId) ==
  {d \in c : d.supplierId = supplierId}

\* db.collection("carts").doc(userId).collection("items")
\*   .where("supplierId", "==", supplierId).get()
CartQuery(c, userId, supplierId) ==
  {d \in c : d.userId = userId /\ d.supplierId = supplierId}

\* doc.data(): the document's fields, without its reference.
DocData(d) == [supplierId |-> d.supplierId, productId |-> d.docId]

\* cartSnap.docs.map((doc) => doc.data())
Items(snap) == {DocData(d) : d \in snap}

\* The object handed to set(): paymentMethod, totalAmount, cardBrand,
\* userEmail and userName are copied from the gateway's answer and are
\* determined by the payment, so transactionId stands for them.
OrderFields(orderId, userId, items) ==
  [ transactionId |-> orderId,
    orderStatus   |-> "Paid",
    userId        |-> userId,
    buyerId       |-> userId,
    items         |-> items ]

SetDocAppend(coll, id, fields) ==
  coll \cup {[id |-> id, fields |-> fields]}

\* db.collection("orders").doc(id).set(fields): the document of that id
\* is replaced, or created when there is none.
SetDoc(coll, id, fields) ==
  {o \in coll : o.id # id} \cup {[id |-> id, fields |-> fields]}

BatchDeleteNothing(c, snap) == c

\* A delete of whatever the carts of the snapshot's pairs hold at commit.
BatchDeleteWholePair(c, snap) ==
  {d \in c : ~ \E s \in snap : s.userId = d.userId
                                /\ s.supplierId = d.supplierId}

\* batch.delete(d.ref) for every doc of the snapshot, then batch.commit():
\* every referenced document that still exists is removed, atomically.
BatchDelete(c, snap) ==
  {d \in c : ~ \E s \in snap : s.userId = d.userId /\ s.docId = d.docId}

\* ------------------------------------------------------------- state

VARIABLES
  cart,      \* the documents of carts/*/items
  orders,    \* the documents of orders
  pc,        \* pc[r]: the await request r is suspended at
  op,        \* op[r]: the endpoint of request r
  input,     \* input[r]: the request's query or body fields
  cartSnap,  \* cartSnap[r]: the documents of the cart query's snapshot
  res,       \* res[r]: the response sent
  arrivals,  \* the number of requests that have arrived
  verdict,   \* history: verdict[r], whether the code the gateway answered
             \* r with is one of ApprovedCodes
  observed,  \* history: payments an approved result was received for
  removed,   \* history: removed[id], the cart documents deleted by
             \* fulfilments of payment id
  cart0,     \* scenario: the cart at the start
  plan,      \* scenario: plan[r], the parameters request r arrives with
  gatewayCalls  \* gatewayCalls[r]: the calls request r made to the gateway

vars == <<cart, orders, pc, op, input, cartSnap, res, arrivals, verdict,
          observed, removed, cart0, plan, gatewayCalls>>

store == <<cart, orders>>

scenario == <<cart0, plan>>

NoInput ==
  [resourcePath |-> Missing, userId |-> Missing, supplierId |-> Missing,
   name |-> Missing, amount |-> Missing]

NoResponse == [status |-> 0, page |-> "", arg |-> "", arg2 |-> ""]

Response(status, page, arg, arg2) ==
  [status |-> status, page |-> page, arg |-> arg, arg2 |-> arg2]

StepAfterDeleteFirst(step) ==
  CASE step = "gateway"     -> "cartRead"
    [] step = "cartRead"    -> "batchCommit"
    [] step = "batchCommit" -> "orderWrite"
    [] step = "orderWrite"  -> "done"

\* A handler that redirects right after the order write.
StepAfterNoDelete(step) ==
  CASE step = "gateway"     -> "cartRead"
    [] step = "cartRead"    -> "orderWrite"
    [] step = "orderWrite"  -> "done"
    [] step = "batchCommit" -> "done"

\* The awaits of payment-status after the classification, in program order.
StepAfter(step) ==
  CASE step = "gateway"     -> "cartRead"
    [] step = "cartRead"    -> "orderWrite"
    [] step = "orderWrite"  -> "batchCommit"
    [] step = "batchCommit" -> "done"

\* No request has arrived, no order has been recorded.
Fresh ==
  /\ orders = {}
  /\ pc = [r \in Requests |-> "idle"]
  /\ op = [r \in Requests |-> "none"]
  /\ input = [r \in Requests |-> NoInput]
  /\ cartSnap = [r \in Requests |-> {}]
  /\ res = [r \in Requests |-> NoResponse]
  /\ arrivals = 0
  /\ verdict = [r \in Requests |-> "none"]
  /\ observed = {}
  /\ removed = [id \in Payments |-> {}]
  /\ gatewayCalls = [r \in Requests |-> 0]

Init ==
  /\ Fresh
  /\ cart = {}
  /\ cart0 = {}
  /\ plan = [r \in Requests |-> NoInput]

\* ------------------------------------------------------------- handlers

\* The handler of request r answers and returns: its locals go with it.
Reply(r, response) ==
  /\ pc' = [pc EXCEPT ![r] = "done"]
  /\ res' = [res EXCEPT ![r] = response]
  /\ op' = [op EXCEPT ![r] = "none"]
  /\ input' = [input EXCEPT ![r] = NoInput]
  /\ cartSnap' = [cartSnap EXCEPT ![r] = {}]

\* A handler that does not check its input.
StartUnchecked(r, endpoint, fields, complete) ==
  /\ pc[r] \in {"idle", "done"}
  /\ arrivals < MaxRequests
  /\ arrivals' = arrivals + 1
  /\ verdict' = [verdict EXCEPT ![r] = "none"]
  /\ pc' = [pc EXCEPT ![r] = "gateway"]
  /\ op' = [op EXCEPT ![r] = endpoint]
  /\ input' = [input EXCEPT ![r] = fields]
  /\ res' = [res EXCEPT ![r] = NoResponse]
  /\ gatewayCalls' = [gatewayCalls EXCEPT ![r] = 1]
  /\ UNCHANGED <<cartSnap, store, observed, removed, scenario>>

\* A request arrives in slot r: the handler checks the required fields and
\* either answers 400 or issues its gateway call.
Start(r, endpoint, fields, complete) ==
  /\ pc[r] \in {"idle", "done"}
  /\ arrivals < MaxRequests
  /\ arrivals' = arrivals + 1
  /\ verdict' = [verdict EXCEPT ![r] = "none"]
  /\ IF ~ complete
       THEN /\ Reply(r, Response(400, "", "", ""))
            /\ gatewayCalls' = [gatewayCalls EXCEPT ![r] = 0]
       ELSE /\ pc' = [pc EXCEPT ![r] = "gateway"]
            /\ op' = [op EXCEPT ![r] = endpoint]
            /\ input' = [input EXCEPT ![r] = fields]
            /\ res' = [res EXCEPT ![r] = NoResponse]
            /\ gatewayCalls' = [gatewayCalls EXCEPT ![r] = 1]
            /\ UNCHANGED cartSnap
  /\ UNCHANGED <<store, observed, removed, scenario>>

\* ------------------------------------------------------- payment-status

\* GET /api/payment-status arrives.
StartPaymentStatus(r, resourcePath, userId, supplierId) ==
  Start(r, "payment-status",
        [NoInput EXCEPT !.resourcePath = resourcePath, !.userId = userId,
                        !.supplierId = supplierId],
        resourcePath # Missing /\ userId # Missing /\ supplierId # Missing)

\* data.id of the answer to request r.
OrderId(r) == PaymentId(input[r].resourcePath)

\* The handler of r goes on after the await `step`: to the next await, or,
\* after the last one, to the redirect to the order-details page.
Continue(r, step) ==
  IF StepAfter(step) = "done"
    THEN Reply(r, Response(302, "order-details", OrderId(r),
                           input[r].supplierId))
    ELSE /\ pc' = [pc EXCEPT ![r] = StepAfter(step)]
         /\ UNCHANGED <<res, op, input>>

\* The gateway answers with a result: the classification and, when the code
\* is not approved, the redirect to the failure page; otherwise the cart
\* query is issued.
PaymentStatusResult(r, c) ==
  /\ pc[r] = "gateway"
  /\ op[r] = "payment-status"
  /\ verdict' = [verdict EXCEPT ![r] =
       IF c \in ApprovedCodes THEN "approved" ELSE "declined"]
  /\ observed' = IF c \in ApprovedCodes
                   THEN observed \cup {OrderId(r)} ELSE observed
  /\ IF ~ IsSuccess(c)
       THEN Reply(r, Response(302, "payment-failed", EncodeURIComponent(c),
                              EncodeURIComponent(Description(c))))
       ELSE /\ pc' = [pc EXCEPT ![r] = StepAfter("gateway")]
            /\ UNCHANGED <<res, op, input, cartSnap>>
  /\ UNCHANGED <<store, arrivals, removed, scenario, gatewayCalls>>

\* The cart query completes: cartSnap.
CartRead(r) ==
  /\ pc[r] = "cartRead"
  /\ Continue(r, "cartRead")
  /\ cartSnap' = [cartSnap EXCEPT ![r] =
       IF StepAfter("cartRead") = "done"
         THEN {}
         ELSE CartQuery(cart, input[r].userId, input[r].supplierId)]
  /\ UNCHANGED <<store, arrivals, verdict, observed, removed, scenario,
                 gatewayCalls>>

\* orders/{orderId}.set({...}) completes.
OrderWrite(r) ==
  /\ pc[r] = "orderWrite"
  /\ orders' = SetDoc(orders, OrderId(r),
                      OrderFields(OrderId(r), input[r].userId,
                                  Items(cartSnap[r])))
  /\ Continue(r, "orderWrite")
  /\ cartSnap' = [cartSnap EXCEPT ![r] =
       IF StepAfter("orderWrite") = "done" THEN {} ELSE @]
  /\ UNCHANGED <<cart, arrivals, verdict, observed, removed, scenario,
                 gatewayCalls>>

\* batch.commit() completes.
BatchCommit(r) ==
  /\ pc[r] = "batchCommit"
  /\ cart' = BatchDelete(cart, cartSnap[r])
  /\ removed' = [removed EXCEPT ![OrderId(r)] = @ \cup (cart \ cart')]
  /\ Continue(r, "batchCommit")
  /\ cartSnap' = [cartSnap EXCEPT ![r] =
       IF StepAfter("batchCommit") = "done" THEN {} ELSE @]
  /\ UNCHANGED <<orders, arrivals, verdict, observed, scenario, gatewayCalls>>

\* A catch block that undoes the order write.
PaymentStatusErrorRollback(r) ==
  /\ pc[r] \in {"gateway", "cartRead", "orderWrite", "batchCommit"}
  /\ op[r] = "payment-status"
  /\ Reply(r, Response(500, "Error verifying payment", "", ""))
  /\ orders' = IF pc[r] = "batchCommit"
                 THEN {o \in orders : o.id # OrderId(r)} ELSE orders
  /\ UNCHANGED <<cart, arrivals, verdict, observed, removed, scenario,
                 gatewayCalls>>

\* axios.get rejects (non-2xx status, transport failure), the answer has no
\* result object, or a store operation rejects: the catch block.
PaymentStatusError(r) ==
  /\ pc[r] \in {"gateway", "cartRead", "orderWrite", "batchCommit"}
  /\ op[r] = "payment-status"
  /\ Reply(r, Response(500, "Error verifying payment", "", ""))
  /\ UNCHANGED <<store, arrivals, verdict, observed, removed, scenario,
                 gatewayCalls>>

\* ------------------------------------------------------- verify-payment

\* POST /api/verify-payment arrives.
StartVerifyPayment(r, resourcePath) ==
  Start(r, "verify-payment", [NoInput EXCEPT !.resourcePath = resourcePath],
        resourcePath # Missing)

\* A handler that calls the gateway again when the call fails.
VerifyPaymentResultRetry(r, ok) ==
  /\ pc[r] = "gateway"
  /\ op[r] = "verify-payment"
  /\ IF ok
       THEN /\ Reply(r, Response(200, "verify", OrderId(r),
                                 input[r].resourcePath))
            /\ UNCHANGED gatewayCalls
       ELSE IF gatewayCalls[r] < 2
         THEN /\ gatewayCalls' = [gatewayCalls EXCEPT ![r] = @ + 1]
              /\ UNCHANGED <<pc, res, op, input, cartSnap>>
         ELSE /\ Reply(r, Response(500, "Verification failed", "", ""))
              /\ UNCHANGED gatewayCalls
  /\ UNCHANGED <<store, arrivals, verdict, observed, removed, scenario>>

\* The gateway answers verify-payment: 200 with the mapped fields, or the
\* catch block's 500.
VerifyPaymentResult(r, ok) ==
  /\ pc[r] = "gateway"
  /\ op[r] = "verify-payment"
  /\ IF ok
       THEN Reply(r, Response(200, "verify", OrderId(r),
                              input[r].resourcePath))
       ELSE Reply(r, Response(500, "Verification failed", "", ""))
  /\ UNCHANGED <<store, arrivals, verdict, observed, removed, scenario,
                 gatewayCalls>>

\* ------------------------------------------------------ create-checkout

\* parseFloat(amount) is a number and not NaN.
ParsesToNumber(amount) == amount = "100"

\* parseFloat(amount).toFixed(2): the amount sent to the gateway.
FormattedAmount(amount) ==
  IF ParsesToNumber(amount) THEN "100.00" ELSE "NaN"

\* POST /api/create-checkout arrives.
StartCreateCheckout(r, name, amount) ==
  Start(r, "create-checkout",
        [NoInput EXCEPT !.name = name, !.amount = amount],
        name # Missing /\ amount # Missing)

\* A handler that answers 200 whatever the gateway's answer holds.
CreateCheckoutResultNoIdTest(r, outcome) ==
  /\ pc[r] = "gateway"
  /\ op[r] = "create-checkout"
  /\ IF outcome \in {"id", "noid"}
       THEN Reply(r, Response(200, "checkoutId", "chk", ""))
       ELSE Reply(r, Response(500, "Failed to create checkout", "", ""))
  /\ UNCHANGED <<store, arrivals, verdict, observed, removed, scenario,
                 gatewayCalls>>

\* A handler that records an order for the checkout it created.
CreateCheckoutResultPersist(r, outcome) ==
  /\ pc[r] = "gateway"
  /\ op[r] = "create-checkout"
  /\ Reply(r, Response(200, "checkoutId", "chk", ""))
  /\ orders' = SetDoc(orders, "pay_A", OrderFields("pay_A", "u1", {}))
  /\ UNCHANGED <<cart, arrivals, verdict, observed, removed, scenario,
                 gatewayCalls>>

\* The gateway answers create-checkout: with an id, without one, or the
\* call rejects.
CreateCheckoutResult(r, outcome) ==
  /\ pc[r] = "gateway"
  /\ op[r] = "create-checkout"
  /\ CASE outcome = "id" ->
            Reply(r, Response(200, "checkoutId", "chk", ""))
        [] outcome = "noid" ->
            Reply(r, Response(500, "No checkoutId returned", "", ""))
        [] OTHER ->
            Reply(r, Response(500, "Failed to create checkout", "", ""))
  /\ UNCHANGED <<store, arrivals, verdict, observed, removed, scenario,
                 gatewayCalls>>

\* ------------------------------------------------------------ storefront

\* The storefront puts an item into a cart.
AddCartItem(d) ==
  /\ d \notin cart
  /\ cart' = cart \cup {d}
  /\ UNCHANGED <<orders, pc, op, input, cartSnap, res, arrivals, verdict,
                 observed, removed, scenario, gatewayCalls>>

\* ------------------------------------------------------ specifications

\* The slot a request arrives in: the lowest one that holds no invocation.
Free(r) ==
  /\ pc[r] \in {"idle", "done"}
  /\ \A q \in Requests : q < r => pc[q] \notin {"idle", "done"}

\* The service under any traffic: requests of the three endpoints arrive,
\* overlap and complete in any order while the storefront fills carts.
Next ==
  \/ \E r \in Requests, p \in Paths \cup {Missing}, u \in Users \cup {Missing},
        s \in Suppliers \cup {Missing} :
        Free(r) /\ StartPaymentStatus(r, p, u, s)
  \/ \E r \in Requests, c \in Codes : PaymentStatusResult(r, c)
  \/ \E r \in Requests : CartRead(r)
  \/ \E r \in Requests : OrderWrite(r)
  \/ \E r \in Requests : BatchCommit(r)
  \/ \E r \in Requests : PaymentStatusError(r)
  \/ \E r \in Requests, p \in Paths \cup {Missing} :
        Free(r) /\ StartVerifyPayment(r, p)
  \/ \E r \in Requests, ok \in BOOLEAN : VerifyPaymentResult(r, ok)
  \/ \E r \in Requests, n \in Names \cup {Missing},
        a \in Amounts \cup {Missing} : Free(r) /\ StartCreateCheckout(r, n, a)
  \/ \E r \in Requests, o \in {"id", "noid", "error"} :
        CreateCheckoutResult(r, o)
  \/ \E d \in Added : AddCartItem(d)

Spec == Init /\ [][Next]_vars

\* The calls of payment-status that pass the parameter check.
Calls ==
  {[NoInput EXCEPT !.resourcePath = p, !.userId = u, !.supplierId = s] :
     p \in Paths, u \in Users, s \in Suppliers}

\* A scenario: some cart, no order, and one payment-status call per slot
\* still to arrive.
InitScenario ==
  /\ Fresh
  /\ cart \in SUBSET Docs
  /\ cart0 = cart
  /\ plan \in [Requests -> Calls]

\* The planned call of slot r arrives.
Planned(r) ==
  /\ pc[r] = "idle"
  /\ StartPaymentStatus(r, plan[r].resourcePath, plan[r].userId,
                        plan[r].supplierId)

\* No other request is being handled.
Alone(r) == \A q \in Requests \ {r} : pc[q] \in {"idle", "done"}

\* The planned calls run one after the other: a call arrives only after the
\* one before it has been answered.
NextSeq ==
  \/ \E r \in Requests : Alone(r) /\ Planned(r)
  \/ \E r \in Requests, c \in Codes : PaymentStatusResult(r, c)
  \/ \E r \in Requests : CartRead(r)
  \/ \E r \in Requests : OrderWrite(r)
  \/ \E r \in Requests : BatchCommit(r)
  \/ \E r \in Requests : PaymentStatusError(r)

SpecSeq == InitScenario /\ [][NextSeq]_vars

\* Every planned call has arrived.
Overlapping == \A r \in Requests : pc[r] # "idle"

\* The planned calls run concurrently: all of them arrive before the
\* gateway answers any, and their steps interleave in any order.
NextTwo ==
  \/ \E r \in Requests : Planned(r)
  \/ \E r \in Requests, c \in Codes : Overlapping /\ PaymentStatusResult(r, c)
  \/ \E r \in Requests : CartRead(r)
  \/ \E r \in Requests : OrderWrite(r)
  \/ \E r \in Requests : BatchCommit(r)
  \/ \E r \in Requests : Overlapping /\ PaymentStatusError(r)

SpecTwo == InitScenario /\ [][NextTwo]_vars

\* A scenario with one call: the same parameters planned for both slots.
InitAdd ==
  /\ InitScenario
  /\ plan[2] = plan[1]

\* One planned call is handled while the storefront adds items to carts.
NextAdd ==
  \/ Planned(1)
  \/ \E c \in Codes : PaymentStatusResult(1, c)
  \/ CartRead(1)
  \/ OrderWrite(1)
  \/ BatchCommit(1)
  \/ PaymentStatusError(1)
  \/ \E d \in Docs : AddCartItem(d)

SpecAdd == InitAdd /\ [][NextAdd]_vars

\* ------------------------------------------------------------- properties

\* Request r sends its success redirect in this step.
Fulfilled(r) ==
  /\ pc[r] # "done"
  /\ pc'[r] = "done"
  /\ res'[r].page = "order-details"

\* The documents of orders with the given id.
OrdersOf(coll, id) == {o \in coll : o.id = id}

\* C1: an order document orders/{id} exists only if a payment-status
\* request received from the gateway a result for payment id whose code is
\* one of the approved codes.
C1_OrderOnlyIfApproved == \A o \in orders : o.id \in observed

C1_Witness == \E o \in orders : o.id \in observed /\ o.fields.items # {}

\* C2, as stated: whenever a payment-status request sends its success
\* redirect, exactly one order document is keyed by its transactionId and
\* carries it, and the cart of (buyerId, supplierId) holds no items.
C2_CartEmptyAfterApproved ==
  [][\A r \in Requests : Fulfilled(r) =>
       /\ Cardinality(OrdersOf(orders', OrderId(r))) = 1
       /\ \A o \in OrdersOf(orders', OrderId(r)) :
            o.fields.transactionId = OrderId(r)
       /\ CartQuery(cart', input[r].userId, input[r].supplierId) = {}]_vars

\* C2, amended: whenever a payment-status request sends its success
\* redirect, exactly one order document is keyed by its transactionId and
\* carries it, and the cart of (buyerId, supplierId) holds none of the items
\* of the request's snapshot: what it still holds was put there after the
\* snapshot was taken.
C2_SnapshotGoneAfterApproved ==
  [][\A r \in Requests : Fulfilled(r) =>
       /\ Cardinality(OrdersOf(orders', OrderId(r))) = 1
       /\ \A o \in OrdersOf(orders', OrderId(r)) :
            o.fields.transactionId = OrderId(r)
       /\ CartQuery(cart', input[r].userId, input[r].supplierId)
            \cap cartSnap[r] = {}]_vars

C2_Witness ==
  \E r \in Requests :
    /\ res[r].page = "order-details"
    /\ removed[res[r].arg] # {}
    /\ OrdersOf(orders, res[r].arg) # {}

\* C3: a payment-status request answered with a code outside the approved
\* codes ends in the failure redirect carrying that code, never reaches the
\* cart read, the order write or the batch delete, and none of its steps
\* changes the orders collection or a cart.
C3_DeclinedTouchesNothing ==
  /\ [](\A r \in Requests : verdict[r] = "declined" =>
          /\ pc[r] = "done"
          /\ res[r].status = 302
          /\ res[r].page = "payment-failed"
          /\ res[r].arg \notin ApprovedCodes)
  /\ [][\A r \in Requests :
          (pc'[r] # pc[r] /\ (pc'[r] = "gateway" \/ verdict'[r] = "declined"))
            => (cart' = cart /\ orders' = orders)]_vars

C3_Witness ==
  \E r \in Requests :
    /\ verdict[r] = "declined"
    /\ res[r].page = "payment-failed"
    /\ cart # {}
    /\ orders # {}

\* The stores a payment-status call leaves when it runs alone from the
\* stores st and is approved.
RunAlone(st, call) ==
  LET snap == CartQuery(st.cart, call.userId, call.supplierId)
      id   == PaymentId(call.resourcePath)
  IN  [cart   |-> BatchDelete(st.cart, snap),
       orders |-> SetDoc(st.orders, id,
                         OrderFields(id, call.userId, Items(snap)))]

\* The stores at the start of a scenario, and now.
Stores0 == [cart |-> cart0, orders |-> {}]

Stores == [cart |-> cart, orders |-> orders]

Succeeded(r) == pc[r] = "done" /\ res[r].page = "order-details"

\* C4: when payment-status runs a second time after a first run with the
\* same resourcePath, buyerId and supplierId has sent its success redirect,
\* and is approved again, its batch delete removes nothing and it leaves
\* exactly one order document for the transactionId.
C4_SecondRunAddsNothing ==
  [][\A r \in Requests : \A q \in Requests \ {r} :
       (plan[q] = plan[r] /\ Succeeded(q) /\ Fulfilled(r)) =>
         /\ pc[r] = "batchCommit"
         /\ cart' = cart
         /\ Cardinality(OrdersOf(orders', OrderId(r))) = 1]_vars

C4_Witness ==
  /\ plan[1] = plan[2]
  /\ Succeeded(1)
  /\ Succeeded(2)
  /\ removed[res[1].arg] # {}

\* C5, as stated: once orders/{id} has been written, no later request
\* changes its content.
C5_OrderImmutable == [][\A o \in orders : o \in orders']_vars

\* C6, as stated: over the payment-status requests of one approved payment,
\* cart items are consumed for at most one (buyerId, supplierId) pair and
\* the order's buyer is never replaced.
C6_ConvertedOnce ==
  /\ [](\A id \in Payments : \A d, e \in removed[id] :
          d.userId = e.userId /\ d.supplierId = e.supplierId)
  /\ [][\A o \in orders, n \in orders' :
          n.id = o.id => n.fields.buyerId = o.fields.buyerId]_vars

\* C7, as stated: in every reachable state, a cart item removed by a
\* fulfilment is among the items of an existing order of that payment.
C7_RemovedItemIsOrdered ==
  \A id \in Payments : \A d \in removed[id] :
    \E o \in OrdersOf(orders, id) : DocData(d) \in o.fields.items

\* C8, as stated: in no reachable state does an order exist while the cart
\* of its buyer still holds an item captured in the order's snapshot.
C8_NoOrderWithCapturedItemsInCart ==
  \A o \in orders : \A d \in cart :
    ~ (d.userId = o.fields.userId /\ DocData(d) \in o.fields.items)

\* C8, amended: the cart items are deleted in the step after the one that
\* writes the order, not in the same step (in between, and for good when
\* the batch delete fails, the order exists while the cart still holds the
\* captured items): a request deletes cart items only once the order of its
\* payment exists, and it deletes items of its own snapshot only.
C8_DeleteFollowsOrderWrite ==
  [][\A r \in Requests :
       (pc[r] = "batchCommit" /\ pc'[r] # pc[r]) =>
         /\ cart \ cart' \subseteq cartSnap[r]
         /\ (cart' # cart => OrdersOf(orders, OrderId(r)) # {})]_vars

C8_Witness ==
  \E id \in Payments : removed[id] # {} /\ OrdersOf(orders, id) # {}

\* C9, as stated: when two concurrent payment-status requests for the same
\* payment and the same (buyerId, supplierId) have both sent their success
\* redirect, the stores are those a single request leaves: one order whose
\* items are the cart items present at the start, and an empty cart.
C9_RaceIsBenign ==
  \A r \in Requests : \A q \in Requests \ {r} :
    (plan[q] = plan[r] /\ Succeeded(q) /\ Succeeded(r)) =>
      Stores = RunAlone(Stores0, plan[r])

\* The calls of r and q are for different payments and different
\* (buyerId, supplierId) pairs.
Independent(r, q) ==
  /\ plan[r].resourcePath # plan[q].resourcePath
  /\ \/ plan[r].userId # plan[q].userId
     \/ plan[r].supplierId # plan[q].supplierId

\* The cart documents of the pair request r is called for.
PairDocs(r) ==
  {d \in Docs : d.userId = plan[r].userId
                 /\ d.supplierId = plan[r].supplierId}

\* What the call of r does to the stores st, given how it was answered.
Effect(st, r) == IF Succeeded(r) THEN RunAlone(st, plan[r]) ELSE st

\* C10: of two concurrent payment-status requests for different payments
\* and different (buyerId, supplierId) pairs, each snapshots and deletes
\* cart items of its own pair only and writes the order of its own payment
\* only, and when both have been answered (neither with 500) the stores are
\* those the two calls leave when run one after the other, in either order.
C10_DifferentPairsIndependent ==
  /\ [](\A r \in Requests : \A q \in Requests \ {r} : Independent(r, q) =>
          /\ cartSnap[r] \subseteq PairDocs(r)
          /\ (pc[r] = "done" /\ pc[q] = "done"
                /\ res[r].status # 500 /\ res[q].status # 500) =>
               /\ Stores = Effect(Effect(Stores0, r), q)
               /\ Stores = Effect(Effect(Stores0, q), r))
  /\ [][\A r \in Requests : \A q \in Requests \ {r} :
          (Independent(r, q) /\ pc'[r] # pc[r]) =>
            /\ cart \ cart' \subseteq PairDocs(r)
            /\ \A o \in (orders \ orders') \cup (orders' \ orders) :
                 o.id = PaymentId(plan[r].resourcePath)]_vars

C10_Witness ==
  /\ Independent(1, 2)
  /\ Succeeded(1)
  /\ Succeeded(2)
  /\ removed[res[1].arg] # {}
  /\ removed[res[2].arg] # {}

\* The awaits of payment-status on the document store.
StoreAwaits == {"cartRead", "orderWrite", "batchCommit"}

\* C11: when a store operation of payment-status fails, the request is
\* answered 500 and not with the success redirect, and the failure leaves
\* both collections as they are: after a failed batch delete the order
\* written before is still there, and a request whose cart read or order
\* write fails has deleted no item of its snapshot.
C11_StoreFailureKeepsOrder ==
  /\ [](\A r \in Requests :
          pc[r] = "orderWrite" => cartSnap[r] \subseteq cart)
  /\ [][\A r \in Requests :
          (pc[r] \in StoreAwaits /\ PaymentStatusError(r)) =>
             /\ pc'[r] = "done"
             /\ res'[r].status = 500
             /\ res'[r].page # "order-details"
             /\ cart' = cart
             /\ orders' = orders
             /\ pc[r] = "batchCommit" =>
                  OrdersOf(orders', OrderId(r)) # {}]_vars

\* The first call failed at its batch delete: answered 500, the order with
\* its items is recorded and the cart still holds them.
C11_Witness ==
  /\ pc[1] = "done" /\ res[1].status = 500 /\ pc[2] = "idle"
  /\ \E o \in orders : \E d \in cart : DocData(d) \in o.fields.items

\* The gateway call of request r fails: axios rejects, or the answer of
\* create-checkout carries no id.
GatewayFails(r) ==
  \/ PaymentStatusError(r)
  \/ VerifyPaymentResult(r, FALSE)
  \/ \E o \in {"noid", "error"} : CreateCheckoutResult(r, o)

ArrivesIncomplete(r) ==
  \/ \E p \in Paths \cup {Missing}, u \in Users \cup {Missing},
        s \in Suppliers \cup {Missing} :
        /\ Missing \in {p, u, s}
        /\ StartPaymentStatus(r, p, u, s)
  \/ StartVerifyPayment(r, Missing)
  \/ \E n \in Names \cup {Missing}, a \in Amounts \cup {Missing} :
        /\ Missing \in {n, a}
        /\ StartCreateCheckout(r, n, a)

\* C13: a request that lacks a required input (create-checkout without
\* name or amount, payment-status without resourcePath, userId or
\* supplierId, verify-payment without resourcePath) is answered 400 on
\* arrival, having made no gateway call and no store access.
C13_MissingInputIs400 ==
  /\ [](\A r \in Requests : res[r].status = 400 =>
          pc[r] = "done" /\ gatewayCalls[r] = 0)
  /\ [][\A r \in Requests :
          ArrivesIncomplete(r) =>
             /\ pc'[r] = "done"
             /\ res'[r].status = 400
             /\ gatewayCalls'[r] = 0
             /\ cart' = cart
             /\ orders' = orders]_vars

\* A request was answered 400 while a cart held an item.
C13_Witness ==
  \E r \in Requests :
     /\ pc[r] = "done"
     /\ res[r].status = 400
     /\ gatewayCalls[r] = 0
     /\ cart # {}

\* C14, as stated: create-checkout answers 400 and makes no gateway call
\* whenever amount is not a non-empty numeric value, an amount that is
\* present but not numeric included.  The handler only tests that amount is
\* present: amount "abc" passes and the gateway is called with "NaN".
C14_NonNumericAmountIs400 ==
  [][\A r \in Requests, n \in Names, a \in Amounts \cup {Missing} :
       (~ ParsesToNumber(a) /\ StartCreateCheckout(r, n, a)) =>
          /\ res'[r].status = 400
          /\ gatewayCalls'[r] = 0]_vars

\* Request r arrives at verify-payment or create-checkout.
StartsOther(r) ==
  \/ \E p \in Paths \cup {Missing} : StartVerifyPayment(r, p)
  \/ \E n \in Names \cup {Missing}, a \in Amounts \cup {Missing} :
        StartCreateCheckout(r, n, a)

\* C15: only payment-status changes the store.  No step of a verify-payment
\* or create-checkout request, whatever its input and whatever the gateway
\* answers, changes orders or a cart; an order is only written by the order
\* write of a payment-status request and a cart item only removed by its
\* batch delete.
C15_OnlyPaymentStatusWrites ==
  [][/\ \A r \in Requests :
          (\/ StartsOther(r)
           \/ /\ op[r] \in {"verify-payment", "create-checkout"}
              /\ pc'[r] # pc[r]) =>
             (cart' = cart /\ orders' = orders)
     /\ orders' # orders =>
          \E r \in Requests : /\ op[r] = "payment-status"
                              /\ pc[r] = "orderWrite"
                              /\ pc'[r] # pc[r]
     /\ cart \ cart' # {} =>
          \E r \in Requests : /\ op[r] = "payment-status"
                              /\ pc[r] = "batchCommit"
                              /\ pc'[r] # pc[r]]_vars

\* A verify-payment and a create-checkout request were both answered 200
\* while a cart held an item.
C15_Witness ==
  \E r \in Requests : \E q \in Requests \ {r} :
     /\ res[r].status = 200 /\ res[r].page = "verify"
     /\ res[q].status = 200 /\ res[q].page = "checkoutId"
     /\ cart # {}

\* C16: the classification is a total function of the result code.  For
\* every code the gateway answers, the request goes on to the fulfilment
\* exactly when the code is "000.000.000", "000.100.110" or "000.100.112"
\* and is answered with the failure redirect otherwise, and the store-less
\* variant of the service classifies every code the same way.
C16_ExactlyThreeCodesApproved ==
  [][\A r \in Requests, c \in Codes :
       PaymentStatusResult(r, c) =>
          /\ c \in {"000.000.000", "000.100.110", "000.100.112"} =>
               (pc'[r] = "cartRead" /\ res'[r] = NoResponse)
          /\ c \notin {"000.000.000", "000.100.110", "000.100.112"} =>
               (pc'[r] = "done" /\ res'[r].page = "payment-failed"
                                /\ res'[r].arg = c)
          /\ IsSuccess(c) = IsSuccessLive(c)]_vars

\* One request was declined for the pending code and another for the
\* string that extends an approved code.
C16_Witness ==
  \E r \in Requests : \E q \in Requests \ {r} :
     /\ res[r].page = "payment-failed" /\ res[r].arg = "000.200.000"
     /\ res[q].page = "payment-failed" /\ res[q].arg = "000.000.0000"

\* C17: create-checkout answers 200 with a checkoutId exactly when its one
\* gateway call resolved with an answer that carries an id; an answer
\* without id and a rejected call (non-2xx status, transport failure) are
\* answered 500 without a checkoutId, and no other step of the service
\* produces a checkoutId.
C17_CheckoutIdIffGatewayId ==
  /\ [](\A r \in Requests : res[r].page = "checkoutId" =>
          (res[r].status = 200 /\ gatewayCalls[r] = 1))
  /\ [][\A r \in Requests :
          /\ \A o \in {"id", "noid", "error"} :
               CreateCheckoutResult(r, o) =>
                  /\ o = "id" =>
                       res'[r] = Response(200, "checkoutId", "chk", "")
                  /\ o # "id" =>
                       (res'[r].status = 500 /\ res'[r].page # "checkoutId")
          /\ (res'[r].page = "checkoutId" /\ res[r].page # "checkoutId") =>
               (op[r] = "create-checkout" /\ pc[r] = "gateway")]_vars

\* One create-checkout request got its checkoutId, another was answered
\* 500 because the gateway's answer carried no id.
C17_Witness ==
  \E r \in Requests : \E q \in Requests \ {r} :
     /\ res[r] = Response(200, "checkoutId", "chk", "")
     /\ res[q] = Response(500, "No checkoutId returned", "", "")

\* C18: the batch delete of a fulfilment removes the documents of its own
\* snapshot and nothing else, all of them when it commits and none when it
\* fails; a document the storefront adds to the same cart after the
\* snapshot was read does not enter the snapshot or the order's items and
\* is still in the cart after the delete.
C18_DeleteIsTheSnapshot ==
  [][/\ (pc[1] = "batchCommit" /\ BatchCommit(1)) =>
          /\ cart' = cart \ cartSnap[1]
          /\ \A o \in OrdersOf(orders', OrderId(1)) :
               o.fields.items = Items(cartSnap[1])
     /\ (pc[1] = "batchCommit" /\ PaymentStatusError(1)) => cart' = cart
     /\ \A d \in Docs :
          AddCartItem(d) => (cartSnap' = cartSnap /\ orders' = orders)]_vars

\* The call answered with the success redirect: its order holds item a,
\* and item b of the same cart, added after the snapshot, is in the cart.
C18_Witness ==
  /\ cart0 = {[userId |-> "u1", docId |-> "a", supplierId |-> "s1"]}
  /\ Succeeded(1)
  /\ cart = {[userId |-> "u1", docId |-> "b", supplierId |-> "s1"]}
  /\ \E o \in orders :
       o.fields.items = {[supplierId |-> "s1", productId |-> "a"]}

\* The text a query parameter decodes to.
DecodeURIComponent(s) ==
  CHOOSE x \in Codes \cup {Description(c) : c \in Codes} :
     EncodeURIComponent(x) = s

\* C19: the redirect to the order-details page is sent by the step in which
\* the request's batch delete commits, after its order write: the order of
\* the payment exists and no document of the snapshot is left in the cart.
\* The redirect to the failure page is sent by the step that receives the
\* gateway's answer, carries the answer's code and description, and comes
\* with no store access.
C19_RedirectAfterCommit ==
  [][\A r \in Requests :
       /\ (res'[r].page = "order-details" /\ res'[r] # res[r]) =>
            /\ pc[r] = "batchCommit"
            /\ res'[r].arg = OrderId(r)
            /\ OrdersOf(orders, OrderId(r)) # {}
            /\ cart' \cap cartSnap[r] = {}
       /\ \A c \in Codes :
            (PaymentStatusResult(r, c) /\ res'[r].page = "payment-failed") =>
               /\ res'[r].status = 302
               /\ DecodeURIComponent(res'[r].arg) = c
               /\ DecodeURIComponent(res'[r].arg2) = Description(c)
               /\ cart' = cart /\ orders' = orders
               /\ cartSnap[r] = {}]_vars

\* One request was sent to the order-details page of an order that holds
\* an item, another to the failure page of a cancelled payment.
C19_Witness ==
  \E r \in Requests : \E q \in Requests \ {r} :
     /\ res[r].page = "order-details"
     /\ \E o \in OrdersOf(orders, res[r].arg) : o.fields.items # {}
     /\ res[q] = Response(302, "payment-failed", "100.396.101",
                          "Cancelled%20by%20user")

\* C20: the snapshot is exactly the set of the buyer's cart documents whose
\* supplierId is the request's at the time of the cart read; the order
\* written holds the data of exactly those documents, also when there are
\* none; the buyer's documents of another supplier, and other buyers'
\* documents, are not captured and not deleted.
C20_SnapshotIsSupplierCart ==
  [][/\ CartRead(1) =>
          cartSnap'[1] = {d \in cart : /\ d.userId = plan[1].userId
                                       /\ d.supplierId = plan[1].supplierId}
     /\ OrderWrite(1) =>
          /\ Cardinality(OrdersOf(orders', OrderId(1))) = 1
          /\ \A o \in OrdersOf(orders', OrderId(1)) :
               /\ o.fields.items =
                    {[supplierId |-> d.supplierId, productId |-> d.docId] :
                       d \in cartSnap[1]}
               /\ Cardinality(o.fields.items) = Cardinality(cartSnap[1])
     /\ BatchCommit(1) =>
          \A d \in cart :
             (d.userId # plan[1].userId
                \/ d.supplierId # plan[1].supplierId) => d \in cart']_vars

\* The buyer held items a and b of supplier s1 and item c of supplier s2:
\* the order holds exactly a and b, and c is what the cart still holds.
C20_Witness ==
  /\ Succeeded(1)
  /\ plan[1].userId = "u1" /\ plan[1].supplierId = "s1"
  /\ \E o \in orders :
       o.fields.items = {[supplierId |-> "s1", productId |-> "a"],
                         [supplierId |-> "s1", productId |-> "b"]}
  /\ cart = {[userId |-> "u1", docId |-> "c", supplierId |-> "s2"]}

=============================================================================
